---- MODULE Spec2Model ----
(***************************************************************************)
(* A model of libcloud/common/openstack.py: the OpenStack authentication   *)
(* client (OpenStackAuthConnection), the service catalog                   *)
(* (OpenStackServiceCatalog) and the base connection                       *)
(* (OpenStackBaseConnection).                                              *)
(*                                                                         *)
(* Python values are represented as follows.                               *)
(*   - None, where a string is expected, is the string None below; a       *)
(*     falsy string is None or "".                                         *)
(*   - An optional non-string value is a sequence of length 0 (None) or 1. *)
(*   - A dict that the code iterates is a sequence of <<key, value>>       *)
(*     pairs in insertion order; a JSON object or a header map that is     *)
(*     only indexed is a function whose DOMAIN is its key set.             *)
(*   - A version string is the sequence of its characters, so that the     *)
(*     substring tests of the code are computed.                           *)
(*   - A raised exception is the name of its class in an err field; "ok"   *)
(*     is a normal return.                                                 *)
(*   - Instants are integers in ticks, TicksPerSecond of them a second.    *)
(***************************************************************************)
EXTENDS Integers, Sequences, FiniteSets, TLC

VARIABLES
    cfg,      \* constructor arguments and class attributes of the connection
    ac,       \* the OpenStackAuthConnection's fields
    conn,     \* the OpenStackBaseConnection's fields
    now,      \* datetime.datetime.utcnow(), in ticks
    last,     \* what the last operation on the connection or client did
    raw,      \* catalog lookups: the raw catalog and version handed in
    catalog,  \* catalog lookups: the constructed OpenStackServiceCatalog
    query,    \* catalog lookups: the last lookup and its result
    history,  \* issued_fresh: every token issued so far outlived the grace
              \* period at the instant it was issued; requested: an API
              \* request has been made on the connection
    threads,  \* two threads in their first request on one connection: the
              \* statement each is at, and its local variables
    driver,   \* an OpenStackDriverMixin: the keyword arguments it was
              \* constructed with, its attributes, the mapping read back
    decoded   \* an OpenStackAuthResponse: its headers and body, and what
              \* parse_body made of them

vars ==
    <<cfg, ac, conn, now, last, raw, catalog, query, history, threads,
      driver, decoded>>

(***************************************************************************)
(* Bounds of the model.                                                    *)
(***************************************************************************)
TicksPerSecond == 2
MaxNow == 3
MaxServices == 2
MaxEndpoints == 2

(***************************************************************************)
(* Python values.                                                          *)
(***************************************************************************)
None == "<None>"
Falsy(s) == s = None \/ s = ""
NoneObj == <<>>
Some(x) == <<x>>
IsNone(o) == o = <<>>

Has(d, k) == k \in DOMAIN d
Get(d, k) == IF k \in DOMAIN d THEN d[k] ELSE None
Drop(d, ks) == [k \in (DOMAIN d) \ ks |-> d[k]]
EmptyMapping == [k \in {} |-> None]

DictHas(d, k) == \E i \in 1..Len(d) : d[i][1] = k
DictIdx(d, k) == CHOOSE i \in 1..Len(d) : d[i][1] = k
DictGet(d, k, default) == IF DictHas(d, k) THEN d[DictIdx(d, k)][2] ELSE default
DictSet(d, k, v) ==
    IF DictHas(d, k) THEN [d EXCEPT ![DictIdx(d, k)] = <<k, v>>]
    ELSE Append(d, <<k, v>>)

Chars_1_0 == <<"1", ".", "0">>
Chars_1_1 == <<"1", ".", "1">>
Chars_2_0 == <<"2", ".", "0">>
Chars_3_0 == <<"3", ".", "0">>
Chars_2_0_apikey == Chars_2_0 \o <<"_", "a", "p", "i", "k", "e", "y">>
Chars_2_0_password == Chars_2_0 \o <<"_", "p", "a", "s", "s", "w", "o", "r", "d">>
Chars_2_0_token == Chars_2_0 \o <<"_", "t", "o", "k", "e", "n">>
NoVersion == <<>>

\* Python's `sub in s` on strings.
In(sub, s) ==
    \E i \in 0..(Len(s) - Len(sub)) : SubSeq(s, i + 1, i + Len(sub)) = sub

AUTH_API_VERSION == Chars_1_1
AUTH_VERSIONS_WITH_EXPIRES ==
    {Chars_1_1, Chars_2_0, Chars_2_0_apikey, Chars_2_0_password}
AUTH_TOKEN_EXPIRES_GRACE_SECONDS == 5

SupportedVersions ==
    {Chars_1_0, Chars_1_1, Chars_2_0, Chars_2_0_apikey, Chars_2_0_password}
UnsupportedVersions == {Chars_3_0, Chars_2_0_token}

(***************************************************************************)
(* OpenStackServiceCatalog.                                                *)
(***************************************************************************)
IsV2(version) == In(Chars_2_0, version)
IsV1(version) == In(Chars_1_1, version) \/ In(Chars_1_0, version)

\* The loop body shared by both parsers: file one endpoint under its region.
AddEndpoint(regions, endpoint) ==
    LET region == Get(endpoint, "region")
        known  == IF DictHas(regions, region) THEN regions
                  ELSE DictSet(regions, region, <<>>)
    IN  DictSet(known, region, Append(DictGet(known, region, <<>>), endpoint))

RECURSIVE AddEndpoints(_, _)
AddEndpoints(regions, endpoints) ==
    IF endpoints = <<>> THEN regions
    ELSE AddEndpoints(AddEndpoint(regions, Head(endpoints)), Tail(endpoints))

RECURSIVE ParseV1Items(_, _)
ParseV1Items(index, items) ==
    IF items = <<>> THEN index
    ELSE LET service   == Head(items)[1]
             endpoints == Head(items)[2]
         IN  ParseV1Items(
                 DictSet(index, service, AddEndpoints(<<>>, endpoints)),
                 Tail(items))

_parse_auth_v1(service_catalog) ==
    IF service_catalog.shape # "dict"
    THEN [err |-> "AttributeError", index |-> <<>>]
    ELSE [err |-> "ok", index |-> ParseV1Items(<<>>, service_catalog.items)]

RECURSIVE ParseV2Services(_, _)
ParseV2Services(index, services) ==
    IF services = <<>> THEN [err |-> "ok", index |-> index]
    ELSE LET service == Head(services) IN
         IF ~Has(service, "type") THEN [err |-> "KeyError", index |-> index]
         ELSE
         LET service_type == service.type
             service_name == Get(service, "name")
             i1 == IF DictHas(index, service_type) THEN index
                   ELSE DictSet(index, service_type, <<>>)
             names  == DictGet(i1, service_type, <<>>)
             names1 == IF DictHas(names, service_name) THEN names
                       ELSE DictSet(names, service_name, <<>>)
             endpoints == IF Has(service, "endpoints") THEN service.endpoints
                          ELSE <<>>
             regions == AddEndpoints(DictGet(names1, service_name, <<>>),
                                     endpoints)
             i2 == DictSet(i1, service_type,
                           DictSet(names1, service_name, regions))
         IN  ParseV2Services(i2, Tail(services))

_parse_auth_v2(service_catalog) ==
    IF service_catalog.shape = "dict"
    THEN \* iterating a dict yields its keys, and a key has no ['type']
         IF service_catalog.items = <<>> THEN [err |-> "ok", index |-> <<>>]
         ELSE [err |-> "TypeError", index |-> <<>>]
    ELSE ParseV2Services(<<>>, service_catalog.services)

\* OpenStackServiceCatalog.__init__: the object, or the exception raised.
OpenStackServiceCatalog(service_catalog, ex_force_auth_version) ==
    LET version == IF ex_force_auth_version = NoVersion THEN AUTH_API_VERSION
                   ELSE ex_force_auth_version
        parsed  == IF IsV2(version) THEN _parse_auth_v2(service_catalog)
                   ELSE IF IsV1(version) THEN _parse_auth_v1(service_catalog)
                   ELSE [err |-> "LibcloudError", index |-> <<>>]
    IN  [err |-> parsed.err,
         obj |-> [_auth_version |-> version, _service_catalog |-> parsed.index]]

RECURSIVE FirstOfEach(_)
FirstOfEach(regions) ==
    IF regions = <<>> THEN <<>>
    ELSE <<Head(regions)[2][1]>> \o FirstOfEach(Tail(regions))

\* Mutant: the last endpoint of each region is returned, not the first.
RECURSIVE LastOfEach(_)
LastOfEach(regions) ==
    IF regions = <<>> THEN <<>>
    ELSE <<Head(regions)[2][Len(Head(regions)[2])]>>
         \o LastOfEach(Tail(regions))

get_endpoints_last(sc, service_type, name) ==
    LET endpoints ==
            IF IsV2(sc._auth_version)
            THEN DictGet(DictGet(sc._service_catalog, service_type, <<>>),
                         name, <<>>)
            ELSE DictGet(sc._service_catalog, name, <<>>)
    IN  LastOfEach(endpoints)

get_endpoints(sc, service_type, name) ==
    LET endpoints ==
            IF IsV2(sc._auth_version)
            THEN DictGet(DictGet(sc._service_catalog, service_type, <<>>),
                         name, <<>>)
            ELSE DictGet(sc._service_catalog, name, <<>>)
    IN  FirstOfEach(endpoints)

RECURSIVE CollectPublicUrls(_)
CollectPublicUrls(endpoints) ==
    IF endpoints = <<>> THEN [err |-> "ok", urls |-> <<>>]
    ELSE LET rest == CollectPublicUrls(Tail(endpoints)) IN
         IF Has(Head(endpoints), "publicURL")
         THEN [err |-> rest.err,
               urls |-> <<Head(endpoints).publicURL>> \o rest.urls]
         ELSE rest

\* Mutant: endpoint['publicURL'] is read without the membership test.
RECURSIVE CollectPublicUrlsUnchecked(_)
CollectPublicUrlsUnchecked(endpoints) ==
    IF endpoints = <<>> THEN [err |-> "ok", urls |-> <<>>]
    ELSE IF ~Has(Head(endpoints), "publicURL")
    THEN [err |-> "KeyError", urls |-> <<>>]
    ELSE LET rest == CollectPublicUrlsUnchecked(Tail(endpoints)) IN
         [err |-> rest.err,
          urls |-> IF rest.err = "ok"
                   THEN <<Head(endpoints).publicURL>> \o rest.urls
                   ELSE <<>>]

get_public_urls_unchecked(sc, service_type, name) ==
    CollectPublicUrlsUnchecked(get_endpoints(sc, service_type, name))

get_public_urls(sc, service_type, name) ==
    CollectPublicUrls(get_endpoints(sc, service_type, name))

get_endpoint(sc, service_type, name, region) ==
    LET endpoint ==
            IF IsV2(sc._auth_version)
            THEN DictGet(DictGet(DictGet(sc._service_catalog, service_type, <<>>),
                                 name, <<>>),
                         region, <<>>)
            ELSE DictGet(DictGet(sc._service_catalog, name, <<>>), region, <<>>)
    IN  IF Len(endpoint) = 1 THEN endpoint[1] ELSE EmptyMapping

(***************************************************************************)
(* Time.  datetime values are instants in ticks; utctimetuple() keeps the  *)
(* fields down to the second and drops the fraction.                       *)
(***************************************************************************)
timedelta(seconds) == seconds * TicksPerSecond
utctimetuple(t) == t \div TicksPerSecond
\* libcloud.utils.iso8601.parse_date: the wire timestamp is represented by
\* the instant it denotes.
parse_date(expires) == Some(expires)

(***************************************************************************)
(* Responses of the identity service.                                      *)
(***************************************************************************)
OK == 200
NON_AUTHORITATIVE_INFORMATION == 203
NO_CONTENT == 204
UNAUTHORIZED == 401
\* Statuses that are neither 401 nor a success code of any version.
OtherStatuses == {500}

GraceTicks == timedelta(AUTH_TOKEN_EXPIRES_GRACE_SECONDS)
\* Expiry instants the service hands out: from one tick past the grace
\* period at instant 0 to the end of the grace period at the last instant.
Expiries == {GraceTicks + k : k \in 1..MaxNow}
LastExpiry == GraceTicks + MaxNow

Gens == {1, 2}
TokenOf(g) == IF g = 1 THEN "token-1" ELSE "token-2"
UserOf(g) == IF g = 1 THEN "user-1" ELSE "user-2"
RegionOf(g) == IF g = 1 THEN "DFW" ELSE "ORD"
UrlOf(g) == IF g = 1 THEN "https://dfw.example/v2" ELSE "https://ord.example/v2"
EmptyDictInfo == "{}"

ListCatalog(services) == [shape |-> "list", services |-> services]
DictCatalog(items) == [shape |-> "dict", items |-> items]

CatalogV2(g) ==
    ListCatalog(<<[type |-> "compute", name |-> "nova",
                   endpoints |-> <<[region |-> RegionOf(g),
                                    publicURL |-> UrlOf(g)]>>]>>)
CatalogV1(g) ==
    DictCatalog(<<<<"cloudServers",
                    <<[region |-> RegionOf(g), publicURL |-> UrlOf(g)]>>>>>>)

\* A JSON body {root: {token: {id, expires}, serviceCatalog, user}} with
\* the keys in `missing` left out ("user" only under "access").
Body(root, id, expires, g, missing) ==
    LET token == Drop([id |-> id, expires |-> expires], missing)
        full  == [token |-> token,
                  serviceCatalog |-> IF root = "access" THEN CatalogV2(g)
                                     ELSE CatalogV1(g),
                  user |-> UserOf(g)]
        inner == Drop(full, missing \cup (IF root = "auth" THEN {"user"} ELSE {}))
    IN  IF root \in missing THEN EmptyMapping
        ELSE [k \in {root} |-> inner]

NoHeaders == EmptyMapping
HeaderNames == {"x-auth-token", "x-server-management-url",
                "x-cdn-management-url", "x-storage-url"}
\* The URL each header of a 1.0 answer carries: a different one per header.
HeaderUrl(k, g) ==
    IF k = "x-server-management-url" THEN UrlOf(g)
    ELSE IF k = "x-cdn-management-url"
    THEN (IF g = 1 THEN "https://cdn1.example/v1" ELSE "https://cdn2.example/v1")
    ELSE (IF g = 1 THEN "https://storage1.example/v1"
          ELSE "https://storage2.example/v1")
HeadersOf(g, token, missing) ==
    Drop([k \in HeaderNames |->
             IF k = "x-auth-token" THEN token ELSE HeaderUrl(k, g)], missing)

Response(status, headers, json, body) ==
    [status |-> status, headers |-> headers, json |-> json, body |-> body]
NoResponse == Response(0, NoHeaders, FALSE, EmptyMapping)

ResponsesError ==
    {Response(s, NoHeaders, FALSE, EmptyMapping) :
        s \in {UNAUTHORIZED} \cup OtherStatuses}

\* Answers to a 1.0 handshake: 204 with all headers, with one of them left
\* out, or with an empty token; 401, 500, and a 200.
Responses10 ==
    {Response(NO_CONTENT, HeadersOf(g, TokenOf(g), {}), FALSE, EmptyMapping) :
        g \in Gens}
    \cup {Response(NO_CONTENT, HeadersOf(2, TokenOf(2), {h}), FALSE,
                   EmptyMapping) : h \in HeaderNames}
    \cup {Response(NO_CONTENT, HeadersOf(1, "", {}), FALSE, EmptyMapping)}
    \cup {Response(OK, HeadersOf(1, TokenOf(1), {}), FALSE, EmptyMapping)}
    \cup ResponsesError

MissingKeys(root) ==
    {{root}, {"id"}, {"expires"}, {"serviceCatalog"}}
    \cup (IF root = "access" THEN {{"user"}} ELSE {})

\* Answers to a 1.1 (root "auth") or 2.0 (root "access") handshake: 200
\* with a complete body for every expiry, with one key left out, with an
\* empty token id, with a body that is not JSON; 203 and 204 with a
\* complete body; 401 and 500.
ResponsesJSON(root) ==
    {Response(OK, NoHeaders, TRUE, Body(root, TokenOf(g), e, g, {})) :
        g \in Gens, e \in Expiries}
    \cup {Response(OK, NoHeaders, TRUE,
                   Body(root, TokenOf(2), LastExpiry, 2, m)) :
            m \in MissingKeys(root)}
    \cup {Response(OK, NoHeaders, TRUE, Body(root, "", LastExpiry, 1, {}))}
    \cup {Response(s, NoHeaders, TRUE,
                   Body(root, TokenOf(1), LastExpiry, 1, {})) :
            s \in {NON_AUTHORITATIVE_INFORMATION, NO_CONTENT}}
    \cup {Response(OK, NoHeaders, FALSE, EmptyMapping)}
    \cup ResponsesError

\* What the identity service may answer to the handshake of a version.
ResponsesFor(version) ==
    IF version = Chars_1_0 THEN Responses10
    ELSE IF version = Chars_1_1 THEN ResponsesJSON("auth")
    ELSE IF version \in SupportedVersions THEN ResponsesJSON("access")
    ELSE ResponsesError

(***************************************************************************)
(* OpenStackAuthConnection.                                                *)
(***************************************************************************)
\* __init__: the fields of a new client.
NewAuthConnection(auth_version) ==
    [auth_version       |-> auth_version,
     urls               |-> DictCatalog(<<>>),
     auth_token         |-> None,
     auth_token_expires |-> NoneObj,
     auth_user_info     |-> None]

Raise(a, err) == [ac |-> a, err |-> err, sent |-> 1]
Return(a) == [ac |-> a, err |-> "ok", sent |-> 1]

\* Mutant: the grace period is not subtracted.
_is_token_valid_no_grace(a, t) ==
    IF Falsy(a.auth_token) THEN FALSE
    ELSE IF IsNone(a.auth_token_expires) THEN FALSE
    ELSE utctimetuple(t) < utctimetuple(a.auth_token_expires[1])

_is_token_valid(a, t) ==
    IF Falsy(a.auth_token) THEN FALSE
    ELSE IF IsNone(a.auth_token_expires) THEN FALSE
    ELSE LET expires == a.auth_token_expires[1]
                        - timedelta(AUTH_TOKEN_EXPIRES_GRACE_SECONDS)
             time_tuple_expires == utctimetuple(expires)
             time_tuple_now     == utctimetuple(t)
         IN  time_tuple_now < time_tuple_expires

\* The 1.1 URL list that authenticate_1_0 emulates from the headers.
Urls_1_0(headers) ==
    DictCatalog(
        <<<<"cloudServers",
            <<[publicURL |-> Get(headers, "x-server-management-url")]>>>>,
          <<"cloudFilesCDN",
            <<[publicURL |-> Get(headers, "x-cdn-management-url")]>>>>,
          <<"cloudFiles",
            <<[publicURL |-> Get(headers, "x-storage-url")]>>>>>>)

\* Mutant: the 401 answer is not told apart from the other failures.
authenticate_1_0_no_401(a, resp) ==
    IF resp.status # NO_CONTENT THEN Raise(a, "MalformedResponseError")
    ELSE LET a1 == [a EXCEPT !.urls = Urls_1_0(resp.headers),
                             !.auth_token = Get(resp.headers, "x-auth-token"),
                             !.auth_user_info = None]
         IN  IF Falsy(a1.auth_token) THEN Raise(a1, "MalformedResponseError")
             ELSE Return(a1)

\* Mutant: the storage URL and the CDN URL are filed under each other's
\* name.
authenticate_1_0_swapped(a, resp) ==
    IF resp.status = UNAUTHORIZED THEN Raise(a, "InvalidCredsError")
    ELSE IF resp.status # NO_CONTENT THEN Raise(a, "MalformedResponseError")
    ELSE LET headers == resp.headers
             urls == DictCatalog(
                 <<<<"cloudServers",
                     <<[publicURL |-> Get(headers, "x-server-management-url")]>>>>,
                   <<"cloudFilesCDN",
                     <<[publicURL |-> Get(headers, "x-storage-url")]>>>>,
                   <<"cloudFiles",
                     <<[publicURL |-> Get(headers, "x-cdn-management-url")]>>>>>>)
             a1 == [a EXCEPT !.urls = urls,
                             !.auth_token = Get(headers, "x-auth-token"),
                             !.auth_user_info = None]
         IN  IF Falsy(a1.auth_token) THEN Raise(a1, "MalformedResponseError")
             ELSE Return(a1)

\* Mutant: the token read from the headers is not tested.
authenticate_1_0_unchecked_token(a, resp) ==
    IF resp.status = UNAUTHORIZED THEN Raise(a, "InvalidCredsError")
    ELSE IF resp.status # NO_CONTENT THEN Raise(a, "MalformedResponseError")
    ELSE Return([a EXCEPT !.urls = Urls_1_0(resp.headers),
                          !.auth_token = Get(resp.headers, "x-auth-token"),
                          !.auth_user_info = None])

authenticate_1_0(a, resp) ==
    IF resp.status = UNAUTHORIZED THEN Raise(a, "InvalidCredsError")
    ELSE IF resp.status # NO_CONTENT THEN Raise(a, "MalformedResponseError")
    ELSE LET headers == resp.headers
             urls == Urls_1_0(headers)
             a1 == [a EXCEPT !.urls = urls,
                             !.auth_token = Get(headers, "x-auth-token"),
                             !.auth_user_info = None]
         IN  IF Falsy(a1.auth_token) THEN Raise(a1, "MalformedResponseError")
             ELSE Return(a1)

\* Mutant: a missing serviceCatalog is read with a default, as 'user' is.
authenticate_1_1_default_catalog(a, resp) ==
    IF resp.status = UNAUTHORIZED THEN Raise(a, "InvalidCredsError")
    ELSE IF resp.status # OK THEN Raise(a, "MalformedResponseError")
    ELSE IF ~resp.json THEN Raise(a, "MalformedResponseError")
    ELSE LET body == resp.body IN
         IF ~(Has(body, "auth") /\ Has(body.auth, "token")
              /\ Has(body.auth.token, "expires")
              /\ Has(body.auth.token, "id"))
         THEN Raise(a, "MalformedResponseError")
         ELSE Return([a EXCEPT
                         !.auth_token = body.auth.token.id,
                         !.auth_token_expires =
                             parse_date(body.auth.token.expires),
                         !.urls = IF Has(body.auth, "serviceCatalog")
                                  THEN body.auth.serviceCatalog
                                  ELSE DictCatalog(<<>>),
                         !.auth_user_info = None])

authenticate_1_1(a, resp) ==
    IF resp.status = UNAUTHORIZED THEN Raise(a, "InvalidCredsError")
    ELSE IF resp.status # OK THEN Raise(a, "MalformedResponseError")
    ELSE IF ~resp.json THEN Raise(a, "MalformedResponseError")
    ELSE LET body == resp.body IN
         \* expires = body['auth']['token']['expires']
         IF ~(Has(body, "auth") /\ Has(body.auth, "token")
              /\ Has(body.auth.token, "expires"))
         THEN Raise(a, "MalformedResponseError")
         \* self.auth_token = body['auth']['token']['id']
         ELSE IF ~Has(body.auth.token, "id")
         THEN Raise(a, "MalformedResponseError")
         ELSE LET a1 == [a EXCEPT
                            !.auth_token = body.auth.token.id,
                            !.auth_token_expires =
                                parse_date(body.auth.token.expires)]
              IN  \* self.urls = body['auth']['serviceCatalog']
                  IF ~Has(body.auth, "serviceCatalog")
                  THEN Raise(a1, "MalformedResponseError")
                  ELSE Return([a1 EXCEPT !.urls = body.auth.serviceCatalog,
                                         !.auth_user_info = None])

authenticate_2_0_with_body(a, resp) ==
    IF resp.status = UNAUTHORIZED THEN Raise(a, "InvalidCredsError")
    ELSE IF resp.status \notin {OK, NON_AUTHORITATIVE_INFORMATION}
    THEN Raise(a, "MalformedResponseError")
    ELSE IF ~resp.json THEN Raise(a, "MalformedResponseError")
    ELSE \* access = body['access']
         IF ~Has(resp.body, "access") THEN Raise(a, "MalformedResponseError")
         ELSE LET access == resp.body.access IN
         \* expires = access['token']['expires']
         IF ~(Has(access, "token") /\ Has(access.token, "expires"))
         THEN Raise(a, "MalformedResponseError")
         \* self.auth_token = access['token']['id']
         ELSE IF ~Has(access.token, "id")
         THEN Raise(a, "MalformedResponseError")
         ELSE LET a1 == [a EXCEPT
                            !.auth_token = access.token.id,
                            !.auth_token_expires =
                                parse_date(access.token.expires)]
              IN  \* self.urls = access['serviceCatalog']
                  IF ~Has(access, "serviceCatalog")
                  THEN Raise(a1, "MalformedResponseError")
                  ELSE Return([a1 EXCEPT
                                  !.urls = access.serviceCatalog,
                                  \* access.get('user', {})
                                  !.auth_user_info =
                                      IF Has(access, "user") THEN access.user
                                      ELSE EmptyDictInfo])

\* Both only differ in the request body they send.
authenticate_2_0_with_apikey(a, resp) == authenticate_2_0_with_body(a, resp)
authenticate_2_0_with_password(a, resp) == authenticate_2_0_with_body(a, resp)

\* Mutant: the cache is used whenever a token is held, expired or not.
authenticate_any_cached(a, force, resp, t) ==
    IF ~force /\ a.auth_version \in AUTH_VERSIONS_WITH_EXPIRES
       /\ ~Falsy(a.auth_token)
    THEN [ac |-> a, err |-> "ok", sent |-> 0]
    ELSE IF a.auth_version = Chars_1_0 THEN authenticate_1_0(a, resp)
    ELSE IF a.auth_version = Chars_1_1 THEN authenticate_1_1(a, resp)
    ELSE IF a.auth_version = Chars_2_0 \/ a.auth_version = Chars_2_0_apikey
    THEN authenticate_2_0_with_apikey(a, resp)
    ELSE IF a.auth_version = Chars_2_0_password
    THEN authenticate_2_0_with_password(a, resp)
    ELSE [ac |-> a, err |-> "LibcloudError", sent |-> 0]

\* Mutant: the version is matched the way the catalog matches it, by
\* looking for '2.0' inside it.
authenticate_substring(a, force, resp, t) ==
    IF ~force /\ a.auth_version \in AUTH_VERSIONS_WITH_EXPIRES
       /\ _is_token_valid(a, t)
    THEN [ac |-> a, err |-> "ok", sent |-> 0]
    ELSE IF a.auth_version = Chars_1_0 THEN authenticate_1_0(a, resp)
    ELSE IF a.auth_version = Chars_1_1 THEN authenticate_1_1(a, resp)
    ELSE IF In(Chars_2_0, a.auth_version)
    THEN authenticate_2_0_with_apikey(a, resp)
    ELSE [ac |-> a, err |-> "LibcloudError", sent |-> 0]

\* Mutant: the force flag is not looked at.
authenticate_force_ignored(a, force, resp, t) ==
    IF a.auth_version \in AUTH_VERSIONS_WITH_EXPIRES
       /\ _is_token_valid(a, t)
    THEN [ac |-> a, err |-> "ok", sent |-> 0]
    ELSE IF a.auth_version = Chars_1_0 THEN authenticate_1_0(a, resp)
    ELSE IF a.auth_version = Chars_1_1 THEN authenticate_1_1(a, resp)
    ELSE IF a.auth_version = Chars_2_0 \/ a.auth_version = Chars_2_0_apikey
    THEN authenticate_2_0_with_apikey(a, resp)
    ELSE IF a.auth_version = Chars_2_0_password
    THEN authenticate_2_0_with_password(a, resp)
    ELSE [ac |-> a, err |-> "LibcloudError", sent |-> 0]

\* authenticate(force): the client afterwards, the exception raised and the
\* number of requests sent to the identity service, which answers `resp`.
authenticate(a, force, resp, t) ==
    IF ~force /\ a.auth_version \in AUTH_VERSIONS_WITH_EXPIRES
       /\ _is_token_valid(a, t)
    THEN [ac |-> a, err |-> "ok", sent |-> 0]
    ELSE IF a.auth_version = Chars_1_0 THEN authenticate_1_0(a, resp)
    ELSE IF a.auth_version = Chars_1_1 THEN authenticate_1_1(a, resp)
    ELSE IF a.auth_version = Chars_2_0 \/ a.auth_version = Chars_2_0_apikey
    THEN authenticate_2_0_with_apikey(a, resp)
    ELSE IF a.auth_version = Chars_2_0_password
    THEN authenticate_2_0_with_password(a, resp)
    ELSE [ac |-> a, err |-> "LibcloudError", sent |-> 0]

(***************************************************************************)
(* OpenStackBaseConnection.                                                *)
(***************************************************************************)
\* Mutant: a forced token is accepted without a forced base URL.
BaseConnectionInit_token_alone(args) ==
    LET version == IF args.ex_force_auth_version = NoVersion
                   THEN AUTH_API_VERSION ELSE args.ex_force_auth_version
    IN  [err |-> "ok",
         cfg |-> [_auth_version             |-> version,
                  ex_force_auth_token       |-> args.ex_force_auth_token,
                  _ex_force_base_url        |-> args.ex_force_base_url,
                  _ex_force_auth_url        |-> args.ex_force_auth_url,
                  auth_url                  |-> args.auth_url,
                  service_type              |-> args.service_type,
                  service_name              |-> args.service_name,
                  service_region            |-> args.service_region,
                  _ex_force_service_type    |-> args.ex_force_service_type,
                  _ex_force_service_name    |-> args.ex_force_service_name,
                  _ex_force_service_region  |-> args.ex_force_service_region],
         conn |-> [auth_token         |-> IF ~Falsy(args.ex_force_auth_token)
                                          THEN args.ex_force_auth_token
                                          ELSE None,
                   auth_token_expires |-> NoneObj,
                   auth_user_info     |-> None,
                   service_catalog    |-> NoneObj,
                   _auth_connection   |-> args.ex_auth_connection # NoVersion,
                   url                |-> None]]

\* __init__: the connection built from the keyword arguments and the class
\* attributes of the driver's connection class, or the exception raised.
BaseConnectionInit(args) ==
    LET version == IF args.ex_force_auth_version = NoVersion
                   THEN AUTH_API_VERSION ELSE args.ex_force_auth_version
    IN  [err |-> IF ~Falsy(args.ex_force_auth_token)
                    /\ Falsy(args.ex_force_base_url)
                 THEN "LibcloudError" ELSE "ok",
         cfg |-> [_auth_version             |-> version,
                  ex_force_auth_token       |-> args.ex_force_auth_token,
                  _ex_force_base_url        |-> args.ex_force_base_url,
                  _ex_force_auth_url        |-> args.ex_force_auth_url,
                  auth_url                  |-> args.auth_url,
                  service_type              |-> args.service_type,
                  service_name              |-> args.service_name,
                  service_region            |-> args.service_region,
                  _ex_force_service_type    |-> args.ex_force_service_type,
                  _ex_force_service_name    |-> args.ex_force_service_name,
                  _ex_force_service_region  |-> args.ex_force_service_region],
         conn |-> [auth_token         |-> IF ~Falsy(args.ex_force_auth_token)
                                          THEN args.ex_force_auth_token
                                          ELSE None,
                   auth_token_expires |-> NoneObj,
                   auth_user_info     |-> None,
                   service_catalog    |-> NoneObj,
                   _auth_connection   |-> args.ex_auth_connection # NoVersion,
                   url                |-> None]]

\* The constructor returned a connection: it did not raise.
Constructed(op) == ~(op.op = "init" /\ op.err # "ok")

\* Mutant: the ex_force_service_* overrides are not looked at.
ConnGetEndpoint_defaults_only(c, k) ==
    IF IsNone(c.service_catalog)
    THEN [err |-> "AttributeError", url |-> None]
    ELSE LET ep == get_endpoint(c.service_catalog[1], k.service_type,
                                k.service_name, k.service_region)
         IN  IF Has(ep, "publicURL")
             THEN [err |-> "ok", url |-> ep.publicURL]
             ELSE [err |-> "LibcloudError", url |-> None]

\* OpenStackBaseConnection.get_endpoint: the URL, or the exception raised.
ConnGetEndpoint(c, k) ==
    LET service_type == IF ~Falsy(k._ex_force_service_type)
                        THEN k._ex_force_service_type ELSE k.service_type
        service_name == IF ~Falsy(k._ex_force_service_name)
                        THEN k._ex_force_service_name ELSE k.service_name
        service_region == IF ~Falsy(k._ex_force_service_region)
                          THEN k._ex_force_service_region ELSE k.service_region
    IN  IF IsNone(c.service_catalog)
        THEN [err |-> "AttributeError", url |-> None]
        ELSE LET ep == get_endpoint(c.service_catalog[1], service_type,
                                    service_name, service_region)
             IN  IF Has(ep, "publicURL")
                 THEN [err |-> "ok", url |-> ep.publicURL]
                 ELSE [err |-> "LibcloudError", url |-> None]

\* get_auth_connection_instance: whether it raises for want of an auth URL.
HasAuthUrl(k) == k._ex_force_auth_url # None \/ k.auth_url # None

\* Mutant: the endpoint is resolved from the catalog even when a base URL
\* is forced.
SetUpConnectionInfo_from_catalog(c, k) ==
    LET e == ConnGetEndpoint(c, k)
    IN  IF e.err # "ok" THEN [err |-> e.err, conn |-> c]
        ELSE [err |-> "ok", conn |-> [c EXCEPT !.url = e.url]]

\* The last two statements of _populate_hosts_and_request_paths.
SetUpConnectionInfo(c, k) ==
    IF ~Falsy(k._ex_force_base_url)
    THEN [err |-> "ok", conn |-> [c EXCEPT !.url = k._ex_force_base_url]]
    ELSE LET e == ConnGetEndpoint(c, k)
         IN  IF e.err # "ok" THEN [err |-> e.err, conn |-> c]
             ELSE [err |-> "ok", conn |-> [c EXCEPT !.url = e.url]]

\* Mutant: the handshake is also run when the held token has expired.
_populate_revalidating(c, a, k, resp, t) ==
    IF Falsy(c.auth_token)
       \/ ~_is_token_valid([a EXCEPT
                               !.auth_token = c.auth_token,
                               !.auth_token_expires = c.auth_token_expires],
                           t)
    THEN IF ~HasAuthUrl(k)
         THEN [conn |-> c, ac |-> a, err |-> "LibcloudError",
               called |-> FALSE, sent |-> 0]
         ELSE LET c1 == [c EXCEPT !._auth_connection = TRUE]
                  r  == authenticate(a, FALSE, resp, t)
              IN  IF r.err # "ok"
                  THEN [conn |-> c1, ac |-> r.ac, err |-> r.err,
                        called |-> TRUE, sent |-> r.sent]
                  ELSE LET c2 == [c1 EXCEPT
                                     !.auth_token = r.ac.auth_token,
                                     !.auth_token_expires =
                                         r.ac.auth_token_expires,
                                     !.auth_user_info = r.ac.auth_user_info]
                           sc == OpenStackServiceCatalog(r.ac.urls,
                                                         k._auth_version)
                       IN  IF sc.err # "ok"
                           THEN [conn |-> c2, ac |-> r.ac, err |-> sc.err,
                                 called |-> TRUE, sent |-> r.sent]
                           ELSE LET c3 == [c2 EXCEPT !.service_catalog =
                                                         Some(sc.obj)]
                                    u  == SetUpConnectionInfo(c3, k)
                                IN  [conn |-> u.conn, ac |-> r.ac,
                                     err |-> u.err, called |-> TRUE,
                                     sent |-> r.sent]
    ELSE LET u == SetUpConnectionInfo(c, k)
         IN  [conn |-> u.conn, ac |-> a, err |-> u.err,
              called |-> FALSE, sent |-> 0]

\* _populate_hosts_and_request_paths: the connection and the client
\* afterwards, the exception raised, whether authenticate() was called and
\* the number of requests it sent.
_populate_hosts_and_request_paths(c, a, k, resp, t) ==
    IF Falsy(c.auth_token)
    THEN IF ~HasAuthUrl(k)
         THEN [conn |-> c, ac |-> a, err |-> "LibcloudError",
               called |-> FALSE, sent |-> 0]
         ELSE LET c1 == [c EXCEPT !._auth_connection = TRUE]
                  r  == authenticate(a, FALSE, resp, t)
              IN  IF r.err # "ok"
                  THEN [conn |-> c1, ac |-> r.ac, err |-> r.err,
                        called |-> TRUE, sent |-> r.sent]
                  ELSE LET c2 == [c1 EXCEPT
                                     !.auth_token = r.ac.auth_token,
                                     !.auth_token_expires =
                                         r.ac.auth_token_expires,
                                     !.auth_user_info = r.ac.auth_user_info]
                           sc == OpenStackServiceCatalog(r.ac.urls,
                                                         k._auth_version)
                       IN  IF sc.err # "ok"
                           THEN [conn |-> c2, ac |-> r.ac, err |-> sc.err,
                                 called |-> TRUE, sent |-> r.sent]
                           ELSE LET c3 == [c2 EXCEPT !.service_catalog =
                                                         Some(sc.obj)]
                                    u  == SetUpConnectionInfo(c3, k)
                                IN  [conn |-> u.conn, ac |-> r.ac,
                                     err |-> u.err, called |-> TRUE,
                                     sent |-> r.sent]
    ELSE LET u == SetUpConnectionInfo(c, k)
         IN  [conn |-> u.conn, ac |-> a, err |-> u.err,
              called |-> FALSE, sent |-> 0]

\* add_default_headers: the X-Auth-Token header of an API request.
XAuthToken(c) == c.auth_token

(***************************************************************************)
(* The connections the model starts from.                                  *)
(***************************************************************************)
Args(version, base_url, token, auth_url, force_url, name, region, force_region, injected) ==
    [ex_force_auth_version   |-> version,
     ex_force_base_url       |-> base_url,
     ex_force_auth_token     |-> token,
     auth_url                |-> auth_url,
     ex_force_auth_url       |-> force_url,
     service_type            |-> "compute",
     service_name            |-> name,
     service_region          |-> region,
     ex_force_service_type   |-> None,
     ex_force_service_name   |-> None,
     ex_force_service_region |-> force_region,
     ex_auth_connection      |-> injected]

AuthUrl == "https://auth.example"
ForcedUrl == "https://forced.example/v2"
ForcedToken == "token-forced"
DefaultName(version) == IF IsV2(version) THEN "nova" ELSE "cloudServers"
DefaultRegion(version) == IF version = Chars_1_0 THEN None ELSE "DFW"

ConnArgs ==
    \* every version, the client injected or built by the connection
    UNION {{Args(v, None, None, AuthUrl, None, DefaultName(v),
                 DefaultRegion(v), None, i) : i \in {NoVersion, v}} :
              v \in SupportedVersions \cup UnsupportedVersions}
    \* the default version
    \cup {Args(NoVersion, None, None, AuthUrl, None, "cloudServers", "DFW",
               None, NoVersion)}
    \* a forced base URL, with and without a forced token
    \cup {Args(Chars_2_0, b, t, AuthUrl, None, "nova", "DFW", None, Chars_2_0) :
            b \in {None, ForcedUrl}, t \in {None, ForcedToken}}
    \* no auth URL, or a forced one
    \cup {Args(Chars_2_0, None, None, None, f, "nova", "DFW", None, NoVersion) :
            f \in {None, AuthUrl}}
    \* a forced region
    \cup {Args(Chars_2_0, None, None, AuthUrl, None, "nova", "DFW", "ORD",
               NoVersion)}
    \* an injected client of another version than the connection's
    \cup {Args(Chars_2_0, None, None, AuthUrl, None, "nova", "DFW", None,
               Chars_1_1)}
    \* a forced service type or service name: over defaults that match no
    \* service, each on its own, and over defaults that match one
    \cup {[Args(Chars_2_0, None, None, AuthUrl, None, o[2], "DFW", None,
                NoVersion)
              EXCEPT !.service_type = o[1],
                     !.ex_force_service_type = o[3],
                     !.ex_force_service_name = o[4]] :
            o \in {<<"volume", "cinder", "compute", "nova">>,
                   <<"volume", "nova", "compute", None>>,
                   <<"compute", "cinder", None, "nova">>,
                   <<"compute", "nova", "volume", None>>,
                   <<"compute", "nova", None, "cinder">>}}

NoOp == [op |-> "init", force |-> FALSE, resp |-> NoResponse, err |-> "ok",
         called |-> FALSE, sent |-> 0, cached |-> FALSE, first |-> FALSE,
         dispatched |-> FALSE, token |-> None, kept |-> TRUE]

NoHistory == [issued_fresh |-> TRUE, requested |-> FALSE]

NoRaw == [service_catalog |-> DictCatalog(<<>>), version |-> NoVersion]
NoQuery == [op |-> "none", service_type |-> None, name |-> None,
            region |-> None]
Threads == {1, 2}
NoThread == [pc |-> "idle", resp |-> NoResponse, sent |-> FALSE, err |-> "ok"]
NoThreads == [t \in Threads |-> NoThread]
NoDriver == [state |-> "none"]
NoDecoded == [state |-> "none"]

\* A failed construction leaves no connection to operate on: cfg and conn
\* then show what the constructor had assigned when it raised.
InitConn ==
    \E args \in ConnArgs :
        LET b == BaseConnectionInit(args) IN
        /\ last = [NoOp EXCEPT !.err = b.err]
        /\ cfg = b.cfg
        /\ conn = b.conn
        /\ ac = NewAuthConnection(IF args.ex_auth_connection # NoVersion
                                  THEN args.ex_auth_connection
                                  ELSE b.cfg._auth_version)

Init ==
    /\ InitConn
    /\ now = 0
    /\ history = NoHistory
    /\ raw = NoRaw
    /\ catalog = NoneObj
    /\ query = NoQuery
    /\ threads = NoThreads
    /\ driver = NoDriver
    /\ decoded = NoDecoded

\* Whether the answer `resp`, if it issued a token to client `a`, issued
\* one that outlives the grace period at instant t.
IssuesFresh(before, after, t) ==
    \/ after.auth_token_expires = before.auth_token_expires
       /\ after.auth_token = before.auth_token
    \/ /\ ~IsNone(after.auth_token_expires)
       /\ after.auth_token_expires[1] - GraceTicks > t

\* A caller invokes authenticate(force) on the client.
Authenticate(force, resp) ==
    /\ conn._auth_connection
    /\ Constructed(last)
    /\ \E r \in {authenticate(ac, force, resp, now)} :
       /\ ac' = r.ac
       /\ last' = [NoOp EXCEPT !.op = "authenticate", !.force = force,
                               !.resp = IF r.sent = 1 THEN resp ELSE NoResponse,
                               !.err = r.err, !.called = TRUE,
                               !.sent = r.sent,
                               !.cached = _is_token_valid(ac, now),
                               !.kept = (r.ac = ac)]
       /\ history' = [history EXCEPT !.issued_fresh =
                                        @ /\ IssuesFresh(ac, r.ac, now)]
    /\ UNCHANGED <<cfg, conn, now, raw, catalog, query, threads, driver, decoded>>

\* A caller makes an API request on the connection: morph_action_hook
\* resolves the token and the endpoint, add_default_headers adds the token,
\* and the request is dispatched unless an exception was raised.
Request(resp) ==
    /\ Constructed(last)
    /\ \E r \in {_populate_hosts_and_request_paths(conn, ac, cfg, resp, now)} :
       /\ conn' = r.conn
       /\ ac' = r.ac
       /\ last' = [NoOp EXCEPT !.op = "request",
                               !.resp = IF r.sent = 1 THEN resp ELSE NoResponse,
                               !.err = r.err, !.called = r.called,
                               !.sent = r.sent,
                               !.cached = ~Falsy(conn.auth_token),
                               !.first = ~history.requested,
                               !.dispatched = (r.err = "ok"),
                               !.token = IF r.err = "ok" THEN XAuthToken(r.conn)
                                         ELSE None]
       /\ history' = [issued_fresh |-> history.issued_fresh
                                        /\ IssuesFresh(ac, r.ac, now),
                       requested |-> TRUE]
    /\ UNCHANGED <<cfg, now, raw, catalog, query, threads, driver, decoded>>

\* A caller asks the connection for its service catalog.
GetServiceCatalog(resp) ==
    /\ Constructed(last)
    /\ \E r \in {IF IsNone(conn.service_catalog)
                 THEN _populate_hosts_and_request_paths(conn, ac, cfg, resp,
                                                        now)
                 ELSE [conn |-> conn, ac |-> ac, err |-> "ok",
                       called |-> FALSE, sent |-> 0]} :
       /\ conn' = r.conn
       /\ ac' = r.ac
       /\ last' = [NoOp EXCEPT !.op = "get_service_catalog",
                               !.resp = IF r.sent = 1 THEN resp ELSE NoResponse,
                               !.err = r.err, !.called = r.called,
                               !.sent = r.sent,
                               !.cached = ~Falsy(conn.auth_token)]
       /\ history' = [history EXCEPT !.issued_fresh =
                                        @ /\ IssuesFresh(ac, r.ac, now)]
    /\ UNCHANGED <<cfg, now, raw, catalog, query, threads, driver, decoded>>

\* Time passes.
Tick ==
    /\ Constructed(last)
    /\ now < MaxNow
    /\ now' = now + 1
    /\ last' = [NoOp EXCEPT !.op = "tick"]
    /\ UNCHANGED <<cfg, ac, conn, raw, catalog, query, history, threads, driver, decoded>>

Next ==
    \/ \E resp \in ResponsesFor(ac.auth_version) : Request(resp)
    \/ \E resp \in ResponsesFor(ac.auth_version) : GetServiceCatalog(resp)
    \/ Tick

\* The connection with its client: API requests as time passes.
Spec == Init /\ [][Next]_vars

\* The client on its own, a connection's injected ex_auth_connection:
\* authenticate calls as time passes.
InitAuth == Init /\ conn._auth_connection /\ Constructed(last)

NextAuth ==
    \/ \E force \in BOOLEAN, resp \in ResponsesFor(ac.auth_version) :
          Authenticate(force, resp)
    \/ Tick

SpecAuth == InitAuth /\ [][NextAuth]_vars

(***************************************************************************)
(* The service catalog on its own: a raw catalog is handed to the          *)
(* constructor and the catalog is then queried.                            *)
(***************************************************************************)
\* Two records of one region, the second without a publicURL, and a record
\* without a region.
EndpointRecords ==
    {[region |-> "DFW", publicURL |-> "https://dfw.example/v2"],
     [region |-> "DFW", internalURL |-> "https://dfw.internal/v2"],
     [publicURL |-> "https://global.example/v2"]}

\* The sequences of exactly n endpoint records.
EndpointLists(n) == [1..n -> EndpointRecords]

\* v2 service records holding exactly n endpoints: with and without a name,
\* and, for n = 0, with and without the endpoints key.
ServiceRecords(n) ==
    LET named == {[type |-> "compute", name |-> "nova", endpoints |-> eps] :
                     eps \in EndpointLists(n)}
                 \cup {[type |-> "object-store", name |-> "swift",
                        endpoints |-> eps] : eps \in EndpointLists(n)}
    IN  named
        \cup {Drop(s, {"name"}) : s \in {x \in named : x.type = "compute"}}
        \cup (IF n = 0 THEN {Drop(s, {"endpoints"}) : s \in named} ELSE {})

\* The sequences of exactly k v2 service records holding at most n
\* endpoints altogether.
RECURSIVE ServiceLists(_, _)
ServiceLists(k, n) ==
    IF k = 0 THEN {<<>>}
    ELSE UNION {{<<s>> \o rest : s \in ServiceRecords(j),
                                 rest \in ServiceLists(k - 1, n - j)} :
                   j \in 0..n}

ServiceKeys == {"cloudServers", "cloudFiles"}

\* The v1 dicts of exactly k services (of distinct keys) holding at most n
\* endpoints altogether.
RECURSIVE ServiceItems(_, _, _)
ServiceItems(k, n, keys) ==
    IF k = 0 THEN {<<>>}
    ELSE UNION {{<<<<key, eps>>>> \o rest :
                    eps \in EndpointLists(j),
                    rest \in ServiceItems(k - 1, n - j, keys \ {key})} :
                   j \in 0..n, key \in keys}

RawCatalogsV2 ==
    {ListCatalog(l) : l \in UNION {ServiceLists(k, MaxEndpoints) :
                                      k \in 0..MaxServices}}
RawCatalogsV1 ==
    {DictCatalog(d) : d \in UNION {ServiceItems(k, MaxEndpoints, ServiceKeys) :
                                      k \in 0..MaxServices}}

\* The versions the catalog is built for: the constructor only looks for
\* '2.0', '1.1' and '1.0' inside the string.
CatalogVersions ==
    {NoVersion, Chars_1_0, Chars_1_1, Chars_2_0, Chars_2_0_password,
     Chars_3_0, Chars_2_0_token}
EffectiveVersion(v) == IF v = NoVersion THEN AUTH_API_VERSION ELSE v

QueryTypes == {None, "compute"}
QueryNames == {None, "nova", "cloudServers"}
QueryRegions == {None, "DFW"}

\* The connection is of no account here: the default one.
DefaultArgs ==
    Args(NoVersion, None, None, AuthUrl, None, "cloudServers", "DFW", None,
         NoVersion)

\* The inputs: a version and a raw catalog of the version's shape.
InitCatalog ==
    /\ cfg = BaseConnectionInit(DefaultArgs).cfg
    /\ conn = BaseConnectionInit(DefaultArgs).conn
    /\ ac = NewAuthConnection(AUTH_API_VERSION)
    /\ now = 0
    /\ last = NoOp
    /\ history = NoHistory
    /\ catalog = NoneObj
    /\ query = NoQuery
    /\ threads = NoThreads
    /\ driver = NoDriver
    /\ decoded = NoDecoded
    /\ \E v \in CatalogVersions :
          \E c \in (IF IsV2(EffectiveVersion(v)) THEN RawCatalogsV2
                    ELSE RawCatalogsV1) :
              raw = [service_catalog |-> c, version |-> v]

\* OpenStackServiceCatalog(raw catalog, version) is constructed.
Construct ==
    /\ query.op = "none"
    /\ LET sc == OpenStackServiceCatalog(raw.service_catalog, raw.version) IN
       /\ catalog' = IF sc.err = "ok" THEN Some(sc.obj) ELSE NoneObj
       /\ query' = [NoQuery EXCEPT !.op = IF sc.err = "ok" THEN "constructed"
                                          ELSE sc.err]
    /\ UNCHANGED <<cfg, ac, conn, now, last, raw, history, threads, driver, decoded>>

\* One lookup is made on the constructed catalog.  (A lookup leaves the
\* catalog as it is, so a second one would start from the same catalog.)
GetEndpoint(service_type, name, region) ==
    /\ query.op = "constructed"
    /\ query' = [op |-> "get_endpoint", service_type |-> service_type,
                 name |-> name, region |-> region,
                 endpoint |-> get_endpoint(catalog[1], service_type, name,
                                           region)]
    /\ UNCHANGED <<cfg, ac, conn, now, last, raw, catalog, history, threads, driver, decoded>>

GetEndpoints(service_type, name) ==
    /\ query.op = "constructed"
    /\ query' = [op |-> "get_endpoints", service_type |-> service_type,
                 name |-> name, region |-> None,
                 endpoints |-> get_endpoints(catalog[1], service_type, name)]
    /\ UNCHANGED <<cfg, ac, conn, now, last, raw, catalog, history, threads, driver, decoded>>

GetPublicUrls(service_type, name) ==
    /\ query.op = "constructed"
    /\ LET r == get_public_urls(catalog[1], service_type, name) IN
       query' = [op |-> "get_public_urls", service_type |-> service_type,
                 name |-> name, region |-> None,
                 err |-> r.err, urls |-> r.urls]
    /\ UNCHANGED <<cfg, ac, conn, now, last, raw, catalog, history, threads, driver, decoded>>

NextCatalog ==
    \/ Construct
    \/ \E t \in QueryTypes, n \in QueryNames, r \in QueryRegions :
          GetEndpoint(t, n, r)
    \/ \E t \in QueryTypes, n \in QueryNames : GetEndpoints(t, n)
    \/ \E t \in QueryTypes, n \in QueryNames : GetPublicUrls(t, n)

SpecCatalog == InitCatalog /\ [][NextCatalog]_vars

(***************************************************************************)
(* Two threads make their first request on one connection at the same      *)
(* time.  Each runs _populate_hosts_and_request_paths and, inside it, the  *)
(* 2.0 handshake of the connection's one auth client; a thread may be      *)
(* preempted between any two statements that read or write the fields of   *)
(* the connection or of the client.                                        *)
(***************************************************************************)
\* The connections raced on: version 2.0 with the client injected, the
\* endpoint resolved from the catalog or forced.
RaceArgs ==
    {Args(Chars_2_0, b, None, AuthUrl, None, "nova", "DFW", None, Chars_2_0) :
        b \in {None, ForcedUrl}}

\* What the identity service answers a racing handshake: 200 with a
\* complete body, 401 or 500.
RaceResponses ==
    {Response(OK, NoHeaders, TRUE, Body("access", TokenOf(g), e, g, {})) :
        g \in Gens, e \in Expiries}
    \cup ResponsesError

InitRace ==
    /\ \E args \in RaceArgs :
          /\ cfg = BaseConnectionInit(args).cfg
          /\ conn = BaseConnectionInit(args).conn
          /\ ac = NewAuthConnection(args.ex_auth_connection)
    /\ now = 0
    /\ last = NoOp
    /\ history = NoHistory
    /\ raw = NoRaw
    /\ catalog = NoneObj
    /\ query = NoQuery
    /\ threads = NoThreads
    /\ driver = NoDriver
    /\ decoded = NoDecoded

\* The thread goes to statement pc.
Goto(t, pc) == threads' = [threads EXCEPT ![t].pc = pc]
\* The thread's request ends, with an exception unless err is "ok".
Finish(t, err) == threads' = [threads EXCEPT ![t].pc = "done", ![t].err = err]

\* if not self.auth_token:
RaceTestToken(t) ==
    /\ threads[t].pc = "idle"
    /\ Goto(t, IF Falsy(conn.auth_token) THEN "get_instance" ELSE "set_up")
    /\ UNCHANGED <<cfg, ac, conn, now, last, raw, catalog, query, history, driver, decoded>>

\* auth_connection = self.get_auth_connection_instance()
RaceGetInstance(t) ==
    /\ threads[t].pc = "get_instance"
    /\ IF ~HasAuthUrl(cfg)
       THEN Finish(t, "LibcloudError") /\ UNCHANGED conn
       ELSE /\ conn' = [conn EXCEPT !._auth_connection = TRUE]
            /\ Goto(t, "authenticate")
    /\ UNCHANGED <<cfg, ac, now, last, raw, catalog, query, history, driver, decoded>>

\* auth_connection.authenticate(), up to the first assignment of the
\* handshake: the cache test and, if it fails, the request, the status
\* test, the decoding of the body and the reads of 'access' and 'expires'.
RaceAuthenticate(t, resp) ==
    /\ threads[t].pc = "authenticate"
    /\ IF ac.auth_version \in AUTH_VERSIONS_WITH_EXPIRES
          /\ _is_token_valid(ac, now)
       THEN Goto(t, "copy_token")
       ELSE LET err ==
                    IF resp.status = UNAUTHORIZED THEN "InvalidCredsError"
                    ELSE IF resp.status
                              \notin {OK, NON_AUTHORITATIVE_INFORMATION}
                    THEN "MalformedResponseError"
                    ELSE IF ~resp.json THEN "MalformedResponseError"
                    ELSE IF ~(Has(resp.body, "access")
                              /\ Has(resp.body.access, "token")
                              /\ Has(resp.body.access.token, "expires"))
                    THEN "MalformedResponseError"
                    ELSE "ok"
            IN  threads' = [threads EXCEPT
                               ![t].pc = IF err = "ok" THEN "set_token"
                                         ELSE "done",
                               ![t].resp = resp,
                               ![t].sent = TRUE,
                               ![t].err = err]
    /\ UNCHANGED <<cfg, ac, conn, now, last, raw, catalog, query, history, driver, decoded>>

\* self.auth_token = access['token']['id']
RaceSetToken(t) ==
    /\ threads[t].pc = "set_token"
    /\ LET access == threads[t].resp.body.access IN
       IF ~Has(access.token, "id")
       THEN Finish(t, "MalformedResponseError") /\ UNCHANGED ac
       ELSE /\ ac' = [ac EXCEPT !.auth_token = access.token.id]
            /\ Goto(t, "set_expires")
    /\ UNCHANGED <<cfg, conn, now, last, raw, catalog, query, history, driver, decoded>>

\* self.auth_token_expires = parse_date(expires)
RaceSetExpires(t) ==
    /\ threads[t].pc = "set_expires"
    /\ ac' = [ac EXCEPT !.auth_token_expires =
                            parse_date(threads[t].resp.body.access.token.expires)]
    /\ Goto(t, "set_urls")
    /\ UNCHANGED <<cfg, conn, now, last, raw, catalog, query, history, driver, decoded>>

\* self.urls = access['serviceCatalog']
RaceSetUrls(t) ==
    /\ threads[t].pc = "set_urls"
    /\ LET access == threads[t].resp.body.access IN
       IF ~Has(access, "serviceCatalog")
       THEN Finish(t, "MalformedResponseError") /\ UNCHANGED ac
       ELSE /\ ac' = [ac EXCEPT !.urls = access.serviceCatalog]
            /\ Goto(t, "set_user_info")
    /\ UNCHANGED <<cfg, conn, now, last, raw, catalog, query, history, driver, decoded>>

\* self.auth_user_info = access.get('user', {}); return self
RaceSetUserInfo(t) ==
    /\ threads[t].pc = "set_user_info"
    /\ LET access == threads[t].resp.body.access IN
       ac' = [ac EXCEPT !.auth_user_info = IF Has(access, "user")
                                           THEN access.user
                                           ELSE EmptyDictInfo]
    /\ Goto(t, "copy_token")
    /\ UNCHANGED <<cfg, conn, now, last, raw, catalog, query, history, driver, decoded>>

\* self.auth_token = auth_connection.auth_token
RaceCopyToken(t) ==
    /\ threads[t].pc = "copy_token"
    /\ conn' = [conn EXCEPT !.auth_token = ac.auth_token]
    /\ Goto(t, "copy_expires")
    /\ UNCHANGED <<cfg, ac, now, last, raw, catalog, query, history, driver, decoded>>

\* self.auth_token_expires = auth_connection.auth_token_expires
RaceCopyExpires(t) ==
    /\ threads[t].pc = "copy_expires"
    /\ conn' = [conn EXCEPT !.auth_token_expires = ac.auth_token_expires]
    /\ Goto(t, "copy_user_info")
    /\ UNCHANGED <<cfg, ac, now, last, raw, catalog, query, history, driver, decoded>>

\* self.auth_user_info = auth_connection.auth_user_info
RaceCopyUserInfo(t) ==
    /\ threads[t].pc = "copy_user_info"
    /\ conn' = [conn EXCEPT !.auth_user_info = ac.auth_user_info]
    /\ Goto(t, "build_catalog")
    /\ UNCHANGED <<cfg, ac, now, last, raw, catalog, query, history, driver, decoded>>

\* self.service_catalog = OpenStackServiceCatalog(auth_connection.urls, ...)
RaceBuildCatalog(t) ==
    /\ threads[t].pc = "build_catalog"
    /\ LET sc == OpenStackServiceCatalog(ac.urls, cfg._auth_version) IN
       IF sc.err # "ok"
       THEN Finish(t, sc.err) /\ UNCHANGED conn
       ELSE /\ conn' = [conn EXCEPT !.service_catalog = Some(sc.obj)]
            /\ Goto(t, "set_up")
    /\ UNCHANGED <<cfg, ac, now, last, raw, catalog, query, history, driver, decoded>>

\* url = self._ex_force_base_url or self.get_endpoint(), and the
\* assignment of host, port, secure and request_path.
RaceSetUp(t) ==
    /\ threads[t].pc = "set_up"
    /\ LET u == SetUpConnectionInfo(conn, cfg) IN
       /\ conn' = u.conn
       /\ Finish(t, u.err)
    /\ UNCHANGED <<cfg, ac, now, last, raw, catalog, query, history, driver, decoded>>

NextRace ==
    \E t \in Threads :
        \/ RaceTestToken(t)
        \/ RaceGetInstance(t)
        \/ \E resp \in RaceResponses : RaceAuthenticate(t, resp)
        \/ RaceSetToken(t)
        \/ RaceSetExpires(t)
        \/ RaceSetUrls(t)
        \/ RaceSetUserInfo(t)
        \/ RaceCopyToken(t)
        \/ RaceCopyExpires(t)
        \/ RaceCopyUserInfo(t)
        \/ RaceBuildCatalog(t)
        \/ RaceSetUp(t)

SpecRace == InitRace /\ [][NextRace]_vars

(***************************************************************************)
(* Properties of the auth client, checked under SpecAuth.                  *)
(***************************************************************************)
\* The four fields an authentication stores.
Stored(a) == <<a.auth_token, a.auth_token_expires, a.urls, a.auth_user_info>>

\* Expiry minus the grace period is strictly after instant t.
StrictlyAfter(a, t) ==
    /\ ~Falsy(a.auth_token)
    /\ ~IsNone(a.auth_token_expires)
    /\ a.auth_token_expires[1] - GraceTicks > t

\* A whole-second boundary lies in (t, expiry minus the grace period]: the
\* two instants fall in different whole seconds.
LaterWholeSecond(a, t) ==
    /\ ~Falsy(a.auth_token)
    /\ ~IsNone(a.auth_token_expires)
    /\ \E s \in (t + 1)..(a.auth_token_expires[1] - GraceTicks) :
           s % TicksPerSecond = 0

\* C1 as stated: authenticate(force=False) on a supported version sends no
\* request when the cached token is valid, meaning that its expiry minus
\* five seconds is strictly after the current instant, and exactly one
\* request otherwise.
C1_AsStated ==
    [][(last'.op = "authenticate" /\ ~last'.force
        /\ ac.auth_version \in SupportedVersions)
       => last'.sent = (IF StrictlyAfter(ac, now) THEN 0 ELSE 1)]_vars

\* C1 amended: authenticate(force=False) on a supported version sends no
\* request when the version carries expiries, a token is cached and its
\* expiry minus five seconds falls in a later whole second than the current
\* instant; in every other case it sends exactly one request.
C1_CacheOrOneRequest ==
    [][(last'.op = "authenticate" /\ ~last'.force
        /\ ac.auth_version \in SupportedVersions)
       => last'.sent = (IF ac.auth_version \in AUTH_VERSIONS_WITH_EXPIRES
                           /\ LaterWholeSecond(ac, now)
                        THEN 0 ELSE 1)]_vars

\* C1 witness: an unforced authenticate() that was served from the cache.
C1_ServedFromCache ==
    /\ last.op = "authenticate"
    /\ ~last.force
    /\ last.sent = 0
    /\ last.err = "ok"
    /\ ac.auth_version = Chars_2_0_password
    /\ ~Falsy(ac.auth_token)

\* C2 as stated: _is_token_valid is true exactly when the token is
\* non-empty, the expiry is known and the expiry minus five seconds is
\* strictly after the current instant.
C2_AsStated == _is_token_valid(ac, now) <=> StrictlyAfter(ac, now)

\* C2 amended: _is_token_valid is true exactly when the token is non-empty,
\* the expiry is known and the expiry minus five seconds falls in a later
\* whole second than the current instant; a token expiring exactly five
\* seconds from now is invalid and one expiring six seconds from now is
\* valid.
C2_ValidBySeconds ==
    /\ _is_token_valid(ac, now) <=> LaterWholeSecond(ac, now)
    /\ (~Falsy(ac.auth_token) /\ ~IsNone(ac.auth_token_expires))
       => /\ ac.auth_token_expires[1] = now + GraceTicks
             => ~_is_token_valid(ac, now)
          /\ ac.auth_token_expires[1] = now + GraceTicks + TicksPerSecond
             => _is_token_valid(ac, now)

\* C2 witness: a cached token that expires six seconds from now was found
\* valid by an unforced authenticate().
C2_SixSecondsLeft ==
    /\ last.op = "authenticate"
    /\ ~last.force
    /\ last.sent = 0
    /\ ac.auth_token_expires = Some(now + GraceTicks + TicksPerSecond)

\* The four fields as the body or the headers of an answer give them.
FromResponse(version, resp) ==
    IF version = Chars_1_0
    THEN <<Get(resp.headers, "x-auth-token"), NoneObj,
           Urls_1_0(resp.headers), None>>
    ELSE LET root == IF version = Chars_1_1 THEN resp.body.auth
                     ELSE resp.body.access
         IN  <<root.token.id, parse_date(root.token.expires),
               root.serviceCatalog,
               IF version = Chars_1_1 THEN None
               ELSE IF Has(root, "user") THEN root.user ELSE EmptyDictInfo>>

\* C5 as stated: after any call of authenticate the token, the expiry, the
\* service catalog and the user information either all come from that
\* call's answer, which happens only when the handshake succeeded, or are
\* all exactly what they were before the call.
C5_AllOrNothing ==
    [][last'.op = "authenticate"
       => \/ Stored(ac') = Stored(ac)
          \/ /\ last'.sent = 1
             /\ last'.err = "ok"
             /\ Stored(ac') = FromResponse(ac.auth_version, last'.resp)]_vars

\* The status codes a handshake of the version accepts.
SuccessCodes(version) ==
    IF version = Chars_1_0 THEN {NO_CONTENT}
    ELSE IF version = Chars_1_1 THEN {OK}
    ELSE {OK, NON_AUTHORITATIVE_INFORMATION}

\* C6: a handshake answered 401 raises InvalidCredsError; answered with any
\* other code outside the version's success codes (204 for 1.0, 200 for
\* 1.1, 200 and 203 for 2.0) it raises MalformedResponseError; only a
\* success code lets it go on to read the answer, so that a handshake that
\* succeeds was answered with a success code and one answered otherwise
\* stores nothing.
C6_OutcomeByStatus ==
    [][(last'.op = "authenticate" /\ last'.sent = 1)
       => LET status == last'.resp.status
              codes  == SuccessCodes(ac.auth_version)
          IN  /\ status = UNAUTHORIZED => last'.err = "InvalidCredsError"
              /\ (status # UNAUTHORIZED /\ status \notin codes)
                 => last'.err = "MalformedResponseError"
              /\ status \notin codes => ac' = ac
              /\ last'.err = "ok" => status \in codes
              /\ last'.err = "InvalidCredsError" => status = UNAUTHORIZED]_vars

\* C6 witness: a 2.0 handshake answered 401 raised InvalidCredsError.
C6_Unauthorized ==
    /\ last.op = "authenticate"
    /\ last.sent = 1
    /\ ac.auth_version = Chars_2_0
    /\ last.resp.status = UNAUTHORIZED
    /\ last.err = "InvalidCredsError"

\* A 1.1 or 2.0 handshake was answered with a success code and a JSON body.
ReadsBody ==
    /\ last.op = "authenticate"
    /\ last.sent = 1
    /\ ac.auth_version \in AUTH_VERSIONS_WITH_EXPIRES
    /\ last.resp.status \in SuccessCodes(ac.auth_version)
    /\ last.resp.json

RootKey(version) == IF version = Chars_1_1 THEN "auth" ELSE "access"

\* The body lacks the token id, the expiry or the service catalog.
LacksRequired(body, root) ==
    \/ ~Has(body, root)
    \/ ~Has(body[root], "token")
    \/ ~Has(body[root].token, "id")
    \/ ~Has(body[root].token, "expires")
    \/ ~Has(body[root], "serviceCatalog")

LacksUser(body, root) == Has(body, root) /\ ~Has(body[root], "user")

\* C7 as stated: a 1.1 or 2.0 handshake answered with a success code whose
\* body lacks any of the fields the handshake extracts (for 2.0 the user
\* information among them) raises MalformedResponseError.
C7_AsStated ==
    (/\ ReadsBody
     /\ \/ LacksRequired(last.resp.body, RootKey(ac.auth_version))
        \/ /\ ac.auth_version # Chars_1_1
           /\ LacksUser(last.resp.body, RootKey(ac.auth_version)))
    => last.err = "MalformedResponseError"

\* C7 amended: a 1.1 or 2.0 handshake answered with a success code raises
\* MalformedResponseError when the body lacks the token id, the expiry or
\* the service catalog, and none of these is ever defaulted; a 2.0 body
\* that lacks only the user information succeeds and stores an empty
\* mapping as the user information.
C7_MissingField ==
    ReadsBody
    => LET body == last.resp.body
           root == RootKey(ac.auth_version)
       IN  /\ LacksRequired(body, root)
              => last.err = "MalformedResponseError"
           /\ ~LacksRequired(body, root)
              => /\ last.err = "ok"
                 /\ Stored(ac) = FromResponse(ac.auth_version, last.resp)
           /\ (~LacksRequired(body, root) /\ LacksUser(body, root)
               /\ ac.auth_version # Chars_1_1)
              => ac.auth_user_info = EmptyDictInfo

\* C7 witness: a 2.0 handshake answered 200 with a body without a service
\* catalog raised MalformedResponseError.
C7_NoCatalogInBody ==
    /\ ReadsBody
    /\ ac.auth_version = Chars_2_0_apikey
    /\ Has(last.resp.body, "access")
    /\ ~Has(last.resp.body.access, "serviceCatalog")
    /\ last.err = "MalformedResponseError"

\* C8: on a client whose version is none of the supported ones,
\* authenticate raises LibcloudError whatever the force flag and whatever
\* is cached, sends no request, stores nothing and falls back to no other
\* version.
C8_UnsupportedVersion ==
    /\ (last.op = "authenticate" /\ ac.auth_version \notin SupportedVersions)
       => /\ last.err = "LibcloudError"
          /\ last.sent = 0
          /\ ac = NewAuthConnection(ac.auth_version)
    /\ \A version \in UnsupportedVersions, force \in BOOLEAN :
         \A resp \in ResponsesFor(version) :
           LET a == [ac EXCEPT !.auth_version = version]
           IN  authenticate(a, force, resp, now)
                   = [ac |-> a, err |-> "LibcloudError", sent |-> 0]

\* C8 witness: a forced authenticate() on a '2.0_token' client raised
\* LibcloudError.
C8_Rejected ==
    /\ last.op = "authenticate"
    /\ last.force
    /\ ac.auth_version = Chars_2_0_token
    /\ last.err = "LibcloudError"
    /\ last.sent = 0

(***************************************************************************)
(* Properties of the base connection, checked under Spec.                  *)
(***************************************************************************)
\* C3 as stated: on a connection of a version that carries expiries, whose
\* identity service has only issued tokens expiring more than five seconds
\* ahead, no API request is dispatched with a token of that service whose
\* expiry minus five seconds is not after the current instant, and a
\* request made while a token is held sends no handshake.
C3_TokenKeptFresh ==
    (/\ last.op = "request"
     /\ last.dispatched
     /\ cfg._auth_version \in AUTH_VERSIONS_WITH_EXPIRES
     /\ last.token \in {TokenOf(g) : g \in Gens}
     /\ history.issued_fresh)
    => /\ last.token = conn.auth_token
       /\ ~IsNone(conn.auth_token_expires)
       /\ conn.auth_token_expires[1] - GraceTicks > now
       /\ last.cached => last.sent = 0

\* The request entered the authenticate-then-resolve sequence: it called
\* authenticate, or failed for want of an auth URL on the way to it.
RanSequence(token_before) ==
    \/ last.called
    \/ /\ Falsy(token_before) /\ ~HasAuthUrl(cfg)
       /\ last.err = "LibcloudError"

RECURSIVE Tagged(_, _, _)
Tagged(type, name, endpoints) ==
    IF endpoints = <<>> THEN <<>>
    ELSE <<[type |-> type, name |-> name, endpoint |-> Head(endpoints)]>>
         \o Tagged(type, name, Tail(endpoints))

RECURSIVE RecordsOfServices(_)
RecordsOfServices(services) ==
    IF services = <<>> THEN <<>>
    ELSE LET service == Head(services) IN
         Tagged(Get(service, "type"), Get(service, "name"),
                IF Has(service, "endpoints") THEN service.endpoints ELSE <<>>)
         \o RecordsOfServices(Tail(services))

RECURSIVE RecordsOfItems(_)
RecordsOfItems(items) ==
    IF items = <<>> THEN <<>>
    ELSE Tagged(None, Head(items)[1], Head(items)[2])
         \o RecordsOfItems(Tail(items))

\* Every endpoint record of a raw catalog, with the type and the name of
\* its service (a 1.x catalog has names only).
RecordsOf(service_catalog) ==
    IF service_catalog.shape = "list"
    THEN RecordsOfServices(service_catalog.services)
    ELSE RecordsOfItems(service_catalog.items)

\* The record matches the arguments that were given; an omitted argument
\* matches everything.
MatchesGiven(rec, typed, service_type, name, region) ==
    /\ (service_type = None \/ ~typed \/ rec.type = service_type)
    /\ (name = None \/ rec.name = name)
    /\ (region = None \/ Get(rec.endpoint, "region") = region)

\* C9 as stated: get_endpoint returns the sole endpoint record when exactly
\* one record of the catalog matches the arguments that were given, and an
\* empty result when none or several match; an omitted region matches the
\* records of every region.
C9_SoleMatchOrEmpty ==
    query.op = "get_endpoint"
    => LET typed == raw.service_catalog.shape = "list"
           matching ==
               SelectSeq(RecordsOf(raw.service_catalog),
                         LAMBDA rec : MatchesGiven(rec, typed,
                                                   query.service_type,
                                                   query.name, query.region))
       IN  query.endpoint = IF Len(matching) = 1 THEN matching[1].endpoint
                            ELSE EmptyMapping

\* The publicURL values of the records that have one, in order.
PublicUrlsOf(endpoints) ==
    LET having == SelectSeq(endpoints, LAMBDA e : Has(e, "publicURL"))
    IN  [i \in 1..Len(having) |-> having[i].publicURL]

\* C10: get_public_urls(service_type, name) never raises and returns the
\* publicURL values of the records of get_endpoints(service_type, name)
\* that have a publicURL field, in the same order, leaving out the records
\* without one.
C10_PublicUrlsOfEndpoints ==
    query.op = "get_public_urls"
    => /\ query.err = "ok"
       /\ query.urls = PublicUrlsOf(get_endpoints(catalog[1],
                                                  query.service_type,
                                                  query.name))

\* C10 witness: get_public_urls returned a URL and left out a record that
\* get_endpoints returns without a publicURL.
C10_RecordLeftOut ==
    /\ query.op = "get_public_urls"
    /\ query.err = "ok"
    /\ Len(query.urls) >= 1
    /\ Len(query.urls)
         < Len(get_endpoints(catalog[1], query.service_type, query.name))

(***************************************************************************)
(* Further properties of the base connection, checked under Spec.          *)
(***************************************************************************)
\* The connection was built with both ex_force_auth_token and
\* ex_force_base_url.
Bypassed ==
    ~Falsy(cfg.ex_force_auth_token) /\ ~Falsy(cfg._ex_force_base_url)

\* C11: on a connection built with both ex_force_auth_token and
\* ex_force_base_url no operation, in any sequence, calls the auth client or
\* sends a handshake: the client stays as constructed, the token stays the
\* supplied one, and every request is dispatched with the supplied token to
\* the supplied base URL.
C11_BypassNeverAuthenticates ==
    Bypassed
    => /\ conn.auth_token = cfg.ex_force_auth_token
       /\ ac = NewAuthConnection(ac.auth_version)
       /\ last.op \in {"request", "get_service_catalog"}
          => /\ ~last.called
             /\ last.sent = 0
             /\ last.err = "ok"
             /\ conn.url = cfg._ex_force_base_url
       /\ last.op = "request"
          => /\ last.dispatched
             /\ last.token = cfg.ex_force_auth_token

\* C11 witness: a later request of a bypassed connection, after time has
\* passed, was dispatched with the supplied token to the supplied URL.
C11_BypassedRequest ==
    /\ Bypassed
    /\ last.op = "request"
    /\ ~last.first
    /\ now > 0
    /\ last.dispatched
    /\ last.token = ForcedToken
    /\ conn.url = ForcedUrl

\* The ex_force_* value when it was supplied, the stored default otherwise.
Override(forced, default) == IF Falsy(forced) THEN default ELSE forced

\* The record the catalog answers for the connection's service type, name
\* and region, each overridden on its own.
ResolvedRecord ==
    get_endpoint(conn.service_catalog[1],
                 Override(cfg._ex_force_service_type, cfg.service_type),
                 Override(cfg._ex_force_service_name, cfg.service_name),
                 Override(cfg._ex_force_service_region, cfg.service_region))

Answered_1_0 ==
    /\ last.op = "authenticate"
    /\ last.sent = 1
    /\ ac.auth_version = Chars_1_0
    /\ last.resp.status = NO_CONTENT

\* The header of a 1.0 answer and the service name its URL is filed under.
UrlHeaders ==
    {<<"x-storage-url", "cloudFiles">>,
     <<"x-server-management-url", "cloudServers">>,
     <<"x-cdn-management-url", "cloudFilesCDN">>}

\* C13: a 1.0 handshake answered 204 with a non-empty x-auth-token T
\* succeeds and leaves the client with token T; a catalog built from the
\* client's raw catalog for version 1.0 answers get_endpoints(name =
\* 'cloudFiles') with one record whose publicURL is the x-storage-url of
\* the answer, and likewise 'cloudServers' with x-server-management-url and
\* 'cloudFilesCDN' with x-cdn-management-url.
C13_HeadersBecomeCatalog ==
    (Answered_1_0 /\ ~Falsy(Get(last.resp.headers, "x-auth-token")))
    => LET sc == OpenStackServiceCatalog(ac.urls, Chars_1_0) IN
       /\ last.err = "ok"
       /\ ac.auth_token = last.resp.headers["x-auth-token"]
       /\ sc.err = "ok"
       /\ \A h \in UrlHeaders :
              Has(last.resp.headers, h[1])
              => get_endpoints(sc.obj, None, h[2])
                     = <<[publicURL |-> last.resp.headers[h[1]]]>>

\* C13 witness: a 1.0 handshake stored token-1 and its catalog answers the
\* storage URL under 'cloudFiles'.
C13_StorageUrlFiled ==
    /\ Answered_1_0
    /\ last.err = "ok"
    /\ ac.auth_token = TokenOf(1)
    /\ get_endpoints(OpenStackServiceCatalog(ac.urls, Chars_1_0).obj, None,
                     "cloudFiles")
           = <<[publicURL |-> HeaderUrl("x-storage-url", 1)]>>

\* C14: a 1.0 handshake answered 204 with no x-auth-token header, or with
\* an empty one, raises MalformedResponseError and leaves the client
\* without a usable token.
C14_MissingTokenHeader ==
    (Answered_1_0 /\ Falsy(Get(last.resp.headers, "x-auth-token")))
    => /\ last.err = "MalformedResponseError"
       /\ Falsy(ac.auth_token)

\* C14 witness: a 1.0 handshake answered 204 without the x-auth-token header
\* raised MalformedResponseError.
C14_NoTokenHeader ==
    /\ Answered_1_0
    /\ ~Has(last.resp.headers, "x-auth-token")
    /\ Has(last.resp.headers, "x-storage-url")
    /\ last.err = "MalformedResponseError"

(***************************************************************************)
(* Two racing first requests, checked under SpecRace.                      *)
(***************************************************************************)
\* The connection's token, expiry, user information and catalog are those
\* of the answer the thread's handshake got.
ConnFromAnswerOf(t) ==
    LET f == FromResponse(ac.auth_version, threads[t].resp) IN
    /\ conn.auth_token = f[1]
    /\ conn.auth_token_expires = f[2]
    /\ conn.auth_user_info = f[4]
    /\ conn.service_catalog
           = Some(OpenStackServiceCatalog(f[3], cfg._auth_version).obj)

\* C15 as stated: when two threads have made their first request on one
\* connection at the same time, each sending a handshake that was answered
\* with a complete token, then once both have finished the connection's
\* auth_token, auth_token_expires, auth_user_info and service_catalog all
\* come from the answer of one and the same handshake.
C15_NoMixOfTwoAnswers ==
    (\A t \in Threads :
        /\ threads[t].pc = "done"
        /\ threads[t].sent
        /\ threads[t].err \in {"ok", "LibcloudError"})
    => \E t \in Threads : ConnFromAnswerOf(t)

\* ---------------------------------------------------------------------
\* OpenStackDriverMixin: the driver keeps the extension arguments it was
\* constructed with and hands them to its connection class.
\* ---------------------------------------------------------------------

EXTENSTION_ARGUMENTS ==
    << "ex_force_base_url", "ex_force_auth_token", "ex_force_auth_url",
       "ex_force_auth_version", "ex_tenant_name", "ex_force_service_type",
       "ex_force_service_name", "ex_force_service_region",
       "ex_auth_connection" >>

\* The list of [argument_name, '_' + argument_name].
_get_argument_pairs ==
    [i \in 1..Len(EXTENSTION_ARGUMENTS) |->
        << EXTENSTION_ARGUMENTS[i], "_" \o EXTENSTION_ARGUMENTS[i] >>]

\* setattr(self, name, value)
SetAttr(attrs, name, value) ==
    [n \in DOMAIN attrs \cup {name} |-> IF n = name THEN value ELSE attrs[n]]

\* The loop of __init__ from pair i on: an argument that kwargs does not
\* hold, or holds as None, sets no attribute.
RECURSIVE StoreArguments(_, _, _)
StoreArguments(i, kwargs, attrs) ==
    IF i > Len(_get_argument_pairs) THEN attrs
    ELSE LET argument_name == _get_argument_pairs[i][1]
             attribute_name == _get_argument_pairs[i][2]
             value == Get(kwargs, argument_name)
         IN  IF value = None
             THEN StoreArguments(i + 1, kwargs, attrs)
             ELSE StoreArguments(i + 1, kwargs,
                                 SetAttr(attrs, attribute_name, value))

\* OpenStackDriverMixin.__init__(**kwargs): the attributes of the new object.
DriverMixinInit(kwargs) == StoreArguments(1, kwargs, <<>>)

\* The loop of openstack_connection_kwargs from pair i on: an attribute that
\* is not set, or whose value is false in a boolean context, is left out.
RECURSIVE CollectArguments(_, _, _)
CollectArguments(i, attrs, result) ==
    IF i > Len(_get_argument_pairs) THEN result
    ELSE LET argument_name == _get_argument_pairs[i][1]
             attribute_name == _get_argument_pairs[i][2]
             value == Get(attrs, attribute_name)
         IN  IF Falsy(value)
             THEN CollectArguments(i + 1, attrs, result)
             ELSE CollectArguments(i + 1, attrs,
                                   SetAttr(result, argument_name, value))

openstack_connection_kwargs(attrs) == CollectArguments(1, attrs, <<>>)

\* The values an extension argument is passed as: None, the empty string, or
\* a non-empty value. ex_auth_connection is a connection object or None.
ArgumentValues(name) ==
    IF name = "ex_auth_connection"
    THEN {None, "connection"}
    ELSE {None, "", "value"}

ArgumentNames == {EXTENSTION_ARGUMENTS[i] : i \in 1..Len(EXTENSTION_ARGUMENTS)}

\* Every subset of the extension arguments, with every assignment of values.
DriverKwargs ==
    UNION {{k \in [names -> {None, "", "value", "connection"}] :
                \A n \in names : k[n] \in ArgumentValues(n)} :
           names \in SUBSET ArgumentNames}

InitMixin ==
    /\ cfg = BaseConnectionInit(DefaultArgs).cfg
    /\ conn = BaseConnectionInit(DefaultArgs).conn
    /\ ac = NewAuthConnection(AUTH_API_VERSION)
    /\ now = 0
    /\ last = NoOp
    /\ raw = NoRaw
    /\ catalog = NoneObj
    /\ query = NoQuery
    /\ history = NoHistory
    /\ threads = NoThreads
    /\ driver = NoDriver
    /\ decoded = NoDecoded

\* driver = Driver(**kwargs)
DriverConstruct ==
    /\ driver.state = "none"
    /\ \E kwargs \in DriverKwargs :
          driver' = [state |-> "constructed", kwargs |-> kwargs,
                     attrs |-> DriverMixinInit(kwargs)]
    /\ UNCHANGED <<cfg, ac, conn, now, last, raw, catalog, query, history, threads, decoded>>

\* driver.openstack_connection_kwargs()
DriverConnectionKwargs ==
    /\ driver.state = "constructed"
    /\ driver' = [state |-> "read", kwargs |-> driver.kwargs,
                  attrs |-> driver.attrs,
                  result |-> openstack_connection_kwargs(driver.attrs)]
    /\ UNCHANGED <<cfg, ac, conn, now, last, raw, catalog, query, history, threads, decoded>>

NextMixin ==
    \/ DriverConstruct
    \/ DriverConnectionKwargs

SpecMixin == InitMixin /\ [][NextMixin]_vars

\* The arguments of kwargs that were passed with a value other than None.
PassedArguments(kwargs) == {n \in DOMAIN kwargs : kwargs[n] # None}

\* C16: whatever subset of the nine extension arguments the driver is
\* constructed with, and whatever values other than None they have,
\* openstack_connection_kwargs() returns exactly the mapping of those
\* arguments to those values; an argument that was omitted or passed as None
\* is not in the result.
C16_RoundTrip ==
    driver.state = "read"
    => /\ DOMAIN driver.result = PassedArguments(driver.kwargs)
       /\ \A n \in DOMAIN driver.result : driver.result[n] = driver.kwargs[n]

\* ---------------------------------------------------------------------
\* OpenStackAuthResponse.parse_body: the body of an identity answer, decoded
\* by its content type. A content type is the sequence of its characters.
\* ---------------------------------------------------------------------

ApplicationJson ==
    << "a", "p", "p", "l", "i", "c", "a", "t", "i", "o", "n", "/", "j", "s",
       "o", "n" >>

ApplicationJsonCharset ==
    << "a", "p", "p", "l", "i", "c", "a", "t", "i", "o", "n", "/", "j", "s",
       "o", "n", ";", " ", "c", "h", "a", "r", "s", "e", "t", "=", "u", "t",
       "f", "-", "8" >>

ApplicationJsonUpper ==
    << "A", "p", "p", "l", "i", "c", "a", "t", "i", "o", "n", "/", "J", "S",
       "O", "N" >>

TextPlain ==
    << "t", "e", "x", "t", "/", "p", "l", "a", "i", "n" >>

TextHtmlCharset ==
    << "t", "e", "x", "t", "/", "h", "t", "m", "l", ";", " ", "c", "h", "a",
       "r", "s", "e", "t", "=", "u", "t", "f", "-", "8" >>

TextJsonParameter ==
    << "t", "e", "x", "t", "/", "p", "l", "a", "i", "n", ";", " ", "a", "p",
       "p", "l", "i", "c", "a", "t", "i", "o", "n", "/", "j", "s", "o", "n" >>

ContentTypes ==
    {ApplicationJson, ApplicationJsonCharset, ApplicationJsonUpper,
     TextPlain, TextHtmlCharset, TextJsonParameter}

\* str.find(ch): the index (from 0) of the first ch in s, or -1.
Find(s, ch) ==
    IF \E i \in 1..Len(s) : s[i] = ch
    THEN (CHOOSE i \in 1..Len(s) :
              s[i] = ch /\ \A j \in 1..(i - 1) : s[j] # ch) - 1
    ELSE -1

\* s.split(ch)[0]: what precedes the first ch, the whole of s without one.
SplitFirst(s, ch) ==
    IF Find(s, ch) = -1 THEN s ELSE SubSeq(s, 1, Find(s, ch))

\* The spellings of the content-type header name an answer may carry.
ContentTypeNames == {"content-type", "Content-Type", "CONTENT-TYPE"}

\* The header mappings of an answer: each spelling absent or present.
DecoderHeaders ==
    UNION {[names -> ContentTypes] : names \in SUBSET ContentTypeNames}

\* The bodies of an answer; JsonDocuments holds those json.loads accepts,
\* with the value it returns.
JsonDocuments ==
    [b \in {"{}", "{\"auth\": {}}"} |->
        IF b = "{}" THEN EmptyDictInfo ELSE [auth |-> EmptyDictInfo]]

DecoderBodies == {"", "{}", "{\"auth\": {}}", "{\"auth\": ", "Unauthorized"}

\* json.loads(body)
JsonLoads(body) ==
    IF body \in DOMAIN JsonDocuments
    THEN [err |-> "ok", data |-> JsonDocuments[body]]
    ELSE [err |-> "ValueError", data |-> None]

\* parse_body(): the exception raised, or the kind of value returned (None,
\* decoded JSON, the body as text) and the value.
parse_body(headers, body) ==
    IF body = "" THEN [err |-> "ok", kind |-> "none", data |-> None]
    ELSE IF ~Has(headers, "content-type") /\ ~Has(headers, "Content-Type")
    THEN [err |-> "LibcloudError", kind |-> "none", data |-> None]
    ELSE LET key == IF Has(headers, "content-type") THEN "content-type"
                    ELSE "Content-Type"
             content_type ==
                 IF Find(headers[key], ";") # -1
                 THEN SplitFirst(headers[key], ";")
                 ELSE headers[key]
         IN  IF content_type = ApplicationJson
             THEN IF JsonLoads(body).err = "ok"
                  THEN [err |-> "ok", kind |-> "json",
                        data |-> JsonLoads(body).data]
                  ELSE [err |-> "MalformedResponseError", kind |-> "none",
                        data |-> None]
             ELSE [err |-> "ok", kind |-> "text", data |-> body]

InitDecoder ==
    /\ cfg = BaseConnectionInit(DefaultArgs).cfg
    /\ conn = BaseConnectionInit(DefaultArgs).conn
    /\ ac = NewAuthConnection(AUTH_API_VERSION)
    /\ now = 0
    /\ last = NoOp
    /\ raw = NoRaw
    /\ catalog = NoneObj
    /\ query = NoQuery
    /\ history = NoHistory
    /\ threads = NoThreads
    /\ driver = NoDriver
    /\ decoded = NoDecoded

\* OpenStackAuthResponse(response).parse_body()
ParseBody ==
    /\ decoded.state = "none"
    /\ \E headers \in DecoderHeaders, body \in DecoderBodies :
          decoded' = [state |-> "parsed", headers |-> headers, body |-> body,
                      result |-> parse_body(headers, body)]
    /\ UNCHANGED <<cfg, ac, conn, now, last, raw, catalog, query, history, threads, driver>>

NextDecoder == ParseBody

SpecDecoder == InitDecoder /\ [][NextDecoder]_vars

\* What the claim says of a non-empty body under the content type ct.
DecodedAs(ct, body, result) ==
    IF SplitFirst(ct, ";") = ApplicationJson
    THEN IF body \in DOMAIN JsonDocuments
         THEN /\ result.err = "ok"
              /\ result.kind = "json"
              /\ result.data = JsonDocuments[body]
         ELSE result.err = "MalformedResponseError"
    ELSE /\ result.err = "ok"
         /\ result.kind = "text"
         /\ result.data = body

\* C17: an empty body gives None without error whatever the headers. With a
\* non-empty body: if no header is named content-type in any letter casing
\* the missing-header error is raised; otherwise the body is JSON-decoded
\* exactly when the type before the first ';' is application/json (and
\* malformed JSON raises MalformedResponseError) and is returned unchanged
\* as text for every other type.
C17_DecodedByContentType ==
    decoded.state = "parsed"
    => IF decoded.body = ""
       THEN decoded.result.err = "ok" /\ decoded.result.kind = "none"
       ELSE IF DOMAIN decoded.headers \cap ContentTypeNames = {}
       THEN decoded.result.err = "LibcloudError"
       ELSE \E name \in DOMAIN decoded.headers \cap ContentTypeNames :
               DecodedAs(decoded.headers[name], decoded.body, decoded.result)

\* ---------------------------------------------------------------------
\* Construction of the service catalog.
\* ---------------------------------------------------------------------

\* C18: constructing a service catalog fails with a configuration error
\* (LibcloudError) for every version string outside the supported set, and
\* for every supported version it succeeds on every raw catalog of that
\* version's shape, service records without a name or without endpoints and
\* endpoints without a region included.
C18_TotalButForVersion ==
    query.op # "none"
    => IF EffectiveVersion(raw.version) \in SupportedVersions
       THEN ~IsNone(catalog)
       ELSE IsNone(catalog) /\ query.op = "LibcloudError"

\* ---------------------------------------------------------------------
\* Construction of the base connection.
\* ---------------------------------------------------------------------

\* C19: the constructor raises LibcloudError when it is given
\* ex_force_auth_token without ex_force_base_url, so there is no connection
\* that holds a forced token and resolves its endpoint from a catalog: a
\* connection with a forced token has a forced base URL, builds no catalog
\* and has no URL but the forced one.
C19_TokenNeedsBaseUrl ==
    ~Falsy(cfg.ex_force_auth_token)
    => IF Falsy(cfg._ex_force_base_url)
       THEN last.op = "init" /\ last.err = "LibcloudError"
       ELSE /\ Constructed(last)
            /\ IsNone(conn.service_catalog)
            /\ conn.url \in {None, cfg._ex_force_base_url}

\* C19 witness: the constructor was given a token and no base URL, and
\* raised.
C19_ConstructionRefused ==
    /\ cfg.ex_force_auth_token = ForcedToken
    /\ cfg._ex_force_base_url = None
    /\ last.op = "init"
    /\ last.err = "LibcloudError"

\* ---------------------------------------------------------------------
\* The force flag of authenticate, checked under SpecAuth.
\* ---------------------------------------------------------------------

\* C20: authenticate(force=True) on a supported version sends exactly one
\* handshake request, also when the cached token is still valid, and when
\* it succeeds the client's token, expiry, raw catalog and user information
\* are those of the new answer; authenticate(force=False) on a cached token
\* that is valid (its expiry minus the grace period lies in a later whole
\* second than now) sends nothing and leaves the client as it was.
C20_ForceFlag ==
    [][last'.op = "authenticate"
       => /\ (last'.force /\ ac.auth_version \in SupportedVersions)
             => /\ last'.sent = 1
                /\ last'.err = "ok"
                   => Stored(ac') = FromResponse(ac.auth_version, last'.resp)
          /\ (~last'.force /\ ac.auth_version \in AUTH_VERSIONS_WITH_EXPIRES
              /\ LaterWholeSecond(ac, now))
             => /\ last'.sent = 0
                /\ last'.err = "ok"
                /\ ac' = ac]_vars

\* C20 witness: a forced authenticate() made while the cached token was
\* still valid sent a request, succeeded and stored the new answer.
C20_ForcedOverValidToken ==
    /\ last.op = "authenticate"
    /\ last.force
    /\ last.cached
    /\ last.sent = 1
    /\ last.err = "ok"
    /\ Stored(ac) = FromResponse(ac.auth_version, last.resp)

\* ---------------------------------------------------------------------
\* get_endpoints of the service catalog, checked under SpecCatalog.
\* ---------------------------------------------------------------------

\* The endpoint records of the raw catalog listed under the selected
\* service, in the order of the raw catalog: the service is selected by
\* type and name in a 2.0 catalog, by name alone in a 1.x catalog.
SelectedRecords ==
    LET typed == raw.service_catalog.shape = "list"
        under == SelectSeq(RecordsOf(raw.service_catalog),
                           LAMBDA rec : /\ rec.name = query.name
                                        /\ typed => rec.type = query.service_type)
    IN  [i \in 1..Len(under) |-> under[i].endpoint]

\* The first record of a sequence of records that is of region r.
FirstOfRegion(records, r) ==
    records[CHOOSE i \in 1..Len(records) :
                /\ Get(records[i], "region") = r
                /\ \A j \in 1..(i - 1) : Get(records[j], "region") # r]

\* C21: get_endpoints(service_type, name) returns one record for each region
\* present under the selected service, namely the first endpoint the raw
\* catalog lists for that region; a later endpoint of the same region is not
\* returned, and a service the catalog does not know gives an empty sequence.
C21_FirstOfEachRegion ==
    query.op = "get_endpoints"
    => LET regions ==
               {Get(SelectedRecords[i], "region") : i \in DOMAIN SelectedRecords}
       IN  /\ Len(query.endpoints) = Cardinality(regions)
           /\ {query.endpoints[i] : i \in DOMAIN query.endpoints}
                 = {FirstOfRegion(SelectedRecords, r) : r \in regions}

\* C21 witness: the selected service lists two different endpoints of one
\* region, and get_endpoints returned the first of them only.
C21_LaterEndpointLeftOut ==
    /\ query.op = "get_endpoints"
    /\ Len(SelectedRecords) = 2
    /\ SelectedRecords[1] # SelectedRecords[2]
    /\ query.endpoints = <<SelectedRecords[1]>>

\* ---------------------------------------------------------------------
\* The cache after a failed handshake, checked under SpecAuth.
\* ---------------------------------------------------------------------

\* C22: when a call of authenticate has raised, the call of
\* authenticate(force=False) that follows it sends a new handshake request,
\* unless a token that was valid before the failed call is still valid; it
\* is never served from a cache that holds a token, an expiry or a catalog
\* which the failed call stored.
C22_FailureLeavesNoCache ==
    [][(/\ last.op = "authenticate"
        /\ last.err # "ok"
        /\ ac.auth_version \in SupportedVersions
        /\ last'.op = "authenticate"
        /\ ~last'.force)
       => \/ last'.sent = 1
          \/ last.cached /\ last.kept]_vars

\* ---------------------------------------------------------------------
\* The token and the catalog of the base connection, checked under Spec.
\* ---------------------------------------------------------------------

\* C23: on a connection built without ex_force_auth_token, whatever
\* requests succeeded or failed before and whatever the version of an
\* injected auth client, a non-empty auth_token comes with a service
\* catalog, and the operation that gave the connection its token sent a
\* handshake whose answer holds both that token and the raw catalog the
\* service catalog was built from.
C23_TokenComesWithItsCatalog ==
    [][Falsy(cfg.ex_force_auth_token)
       => /\ ~Falsy(conn.auth_token') => ~IsNone(conn.service_catalog')
          /\ conn.auth_token' # conn.auth_token
             => /\ last'.sent = 1
                /\ conn.auth_token'
                      = FromResponse(ac.auth_version, last'.resp)[1]
                /\ conn.service_catalog'
                      = Some(OpenStackServiceCatalog(
                                 FromResponse(ac.auth_version, last'.resp)[3],
                                 cfg._auth_version).obj)]_vars

\* ---------------------------------------------------------------------
\* The URL get_endpoint returns, checked under Spec.
\* ---------------------------------------------------------------------

\* C24: whatever the version and whatever successful handshake answer the
\* catalog was built from, a 1.0 answer that lacks one of the three service
\* URL headers included, the connection's get_endpoint() either returns a
\* publicURL that is a non-empty string or raises LibcloudError; a request
\* that resolved its endpoint from the catalog holds a non-empty URL.
C24_EndpointUrlNeverEmpty ==
    ~IsNone(conn.service_catalog)
    => /\ IF ConnGetEndpoint(conn, cfg).err = "ok"
          THEN ~Falsy(ConnGetEndpoint(conn, cfg).url)
          ELSE ConnGetEndpoint(conn, cfg).err = "LibcloudError"
       /\ (last.op = "request" /\ last.err = "ok"
           /\ Falsy(cfg._ex_force_base_url))
          => ~Falsy(conn.url)

====
